---------------------------- MODULE Spec2Model ----------------------------
(***************************************************************************)
(* A model of jpegface.py: the Haar cascade loader (Cascade.load), the     *)
(* dense feature grid (Cascade.feature_to_array), the rejection cascade    *)
(* (Cascade.detect), the mixed-integer encoding of the cascade             *)
(* (CascadeModel.__init__) and the driver (find_min_face and the module's  *)
(* top-level statements).                                                  *)
(*                                                                         *)
(* Numbers.  The program computes in float64.  The model computes in exact *)
(* arithmetic over the integers:                                           *)
(*   - rectangle weights, leaf values and stage thresholds are integers;   *)
(*   - a classifier threshold is a fraction <<num, den>> with den > 0;     *)
(*   - a pixel variable takes the values k / PixLevels, k in 0..PixLevels, *)
(*     and is stored as its numerator k;                                   *)
(*   - an image is a record [den, px]: the pixel in row y and column x is  *)
(*     px[y][x] / den.                                                     *)
(* Comparisons of fractions are made by cross-multiplication with positive *)
(* denominators.  Rounding of float64 is outside the model.                *)
(*                                                                         *)
(* Indices.  Python sequences are 0-based, TLA+ sequences 1-based: the     *)
(* variable stage_idx and the field feature_idx keep the program's 0-based *)
(* values, and element i of a Python list is element i + 1 of the          *)
(* sequence.  Grids are functions over 0..height-1 and 0..width-1.         *)
(***************************************************************************)
EXTENDS Integers, Sequences, FiniteSets

VARIABLES
    pc,         \* position of the run
    desc,       \* the cascade description file given on the command line
    cascade,    \* the Cascade held by the run (NoCascade before a load)
    fidx,       \* the argument of a direct feature_to_array call
    out,        \* the grid returned by a direct feature_to_array call
    model,      \* CascadeModel.model: the sequence of constraints added
    sol,        \* pixel_vars' solution values (numerators over PixLevels)
    fsol,       \* feature_vars' solution values
    im,         \* the image detect works on
    stage_idx,  \* detect: the stage of the outer loop (0-based)
    cls_idx,    \* detect: the next weak classifier of the stage (1-based)
    total,      \* detect: the running stage total
    evaluated,  \* detect: the <<stage, classifier>> pairs evaluated so far
    result,     \* detect's return value
    written,    \* whether out.png has been written
    err         \* the uncaught exception that ended the run ("" if none)

vars == <<pc, desc, cascade, fidx, out, model, sol, fsol, im, stage_idx,
          cls_idx, total, evaluated, result, written, err>>

NoValue == "none"
NoGrid == <<>>
NoImage == [den |-> 1, px |-> <<>>]
NoModel == <<>>
NoCascade == [width |-> 0, height |-> 0, stages |-> <<>>, features |-> <<>>]
NoDescription == [width |-> 0, height |-> 0, stages |-> <<>>, features |-> <<>>]

(***************************************************************************)
(* Bounds of the model.                                                    *)
(***************************************************************************)
MaxStages == 2
MaxClassifiers == 2
MaxRects == 2
PixLevels == 2

(***************************************************************************)
(* Arithmetic helpers.                                                     *)
(***************************************************************************)
RECURSIVE SeqSum(_)
SeqSum(s) == IF s = <<>> THEN 0 ELSE Head(s) + SeqSum(Tail(s))

RECURSIVE SetSum(_, _)
SetSum(S, f) ==
    IF S = {} THEN 0
    ELSE LET e == CHOOSE e \in S : TRUE IN f[e] + SetSum(S \ {e}, f)

Min(a, b) == IF a <= b THEN a ELSE b

SeqsUpTo(S, n) == UNION {[1..k -> S] : k \in 1..n}

Rows(cas) == 0..(cas.height - 1)
Cols(cas) == 0..(cas.width - 1)
Cells(cas) == Rows(cas) \X Cols(cas)

(***************************************************************************)
(* Rect, WeakClassifier, Stage and Cascade: the named tuples.              *)
(***************************************************************************)
Rect(x, y, w, h, weight) == [x |-> x, y |-> y, w |-> w, h |-> h, weight |-> weight]

WeakClassifier(feature_idx, threshold, fail_val, pass_val) ==
    [feature_idx |-> feature_idx, threshold |-> threshold,
     fail_val |-> fail_val, pass_val |-> pass_val]

Stage(threshold, weak_classifiers) ==
    [threshold |-> threshold, weak_classifiers |-> weak_classifiers]

Cascade(width, height, stages, features) ==
    [width |-> width, height |-> height, stages |-> stages, features |-> features]

(***************************************************************************)
(* Cascade.feature_to_array.  out[y:(y + h), x:(x + w)] += weight adds the *)
(* weight to the cells of the slice; a slice that runs past the grid is    *)
(* cut at the grid's edge.  The rectangles are applied in order.  x and y   *)
(* are the non-negative integers of a cascade file: a negative slice start *)
(* counts from the far edge in numpy and is not drawn here.                *)
(***************************************************************************)
SliceAddOverwrite(cas, grid, r) ==
    [row \in Rows(cas) |-> [col \in Cols(cas) |->
        IF /\ r.y <= row /\ row < Min(r.y + r.h, cas.height)
           /\ r.x <= col /\ col < Min(r.x + r.w, cas.width)
        THEN r.weight
        ELSE grid[row][col]]]

SliceAdd(cas, grid, r) ==
    [row \in Rows(cas) |-> [col \in Cols(cas) |->
        IF /\ r.y <= row /\ row < Min(r.y + r.h, cas.height)
           /\ r.x <= col /\ col < Min(r.x + r.w, cas.width)
        THEN grid[row][col] + r.weight
        ELSE grid[row][col]]]

RECURSIVE AddRects(_, _, _, _)
AddRects(cas, grid, feature, i) ==
    IF i > Len(feature) THEN grid
    ELSE AddRects(cas, SliceAdd(cas, grid, feature[i]), feature, i + 1)

feature_to_array(cas, feature_idx) ==
    AddRects(cas, [row \in Rows(cas) |-> [col \in Cols(cas) |-> 0]],
             cas.features[feature_idx + 1], 1)

(***************************************************************************)
(* A direct call of feature_to_array on a cascade whose features are drawn *)
(* from all lists of up to MaxRects rectangles on a 2 x 2 grid.            *)
(***************************************************************************)
RectPool ==
    {Rect(x, y, w, h, weight) :
        x \in 0..1, y \in 0..1, w \in 1..2, h \in 1..2, weight \in {-1, 2}}

FeaturePool == SeqsUpTo(RectPool, MaxRects) \cup {<<>>}

Idle ==
    /\ fidx = 0 /\ out = NoGrid /\ model = NoModel /\ sol = NoGrid
    /\ fsol = NoValue /\ im = NoImage /\ stage_idx = 0 /\ cls_idx = 1
    /\ total = 0 /\ evaluated = {} /\ result = NoValue /\ written = FALSE
    /\ err = ""

InitFeature ==
    /\ pc = "feature"
    /\ desc = NoDescription
    /\ \E f \in FeaturePool : cascade = Cascade(2, 2, <<>>, <<f>>)
    /\ Idle

FeatureToArray ==
    /\ pc = "feature"
    /\ \E i \in 0..(Len(cascade.features) - 1) :
          /\ fidx' = i
          /\ out' = feature_to_array(cascade, i)
    /\ pc' = "feature_done"
    /\ UNCHANGED <<desc, cascade, model, sol, fsol, im, stage_idx, cls_idx,
                   total, evaluated, result, written, err>>

NextFeature == FeatureToArray

SpecFeature == InitFeature /\ [][NextFeature]_vars

(***************************************************************************)
(* C5: additivity of feature_to_array.  Every cell of the returned grid    *)
(* holds the sum of the weights of the rectangles of the feature whose     *)
(* footprint [y, y+h) x [x, x+w) contains the cell; a cell that no         *)
(* rectangle contains holds 0.                                             *)
(***************************************************************************)
Covering(feature, row, col) ==
    {i \in 1..Len(feature) :
        /\ feature[i].y <= row /\ row < feature[i].y + feature[i].h
        /\ feature[i].x <= col /\ col < feature[i].x + feature[i].w}

C5_Additivity ==
    pc = "feature_done" =>
        LET feature == cascade.features[fidx + 1] IN
        \A cell \in Cells(cascade) :
            out[cell[1]][cell[2]] =
                SetSum(Covering(feature, cell[1], cell[2]),
                       [i \in 1..Len(feature) |-> feature[i].weight])

C5_Witness ==
    /\ pc = "feature_done"
    /\ \E cell \in Cells(cascade) :
          /\ Cardinality(Covering(cascade.features[fidx + 1], cell[1], cell[2])) = 2
          /\ out[cell[1]][cell[2]] = 1
    /\ \E cell \in Cells(cascade) :
          /\ Covering(cascade.features[fidx + 1], cell[1], cell[2]) = {}
          /\ out[cell[1]][cell[2]] = 0


(***************************************************************************)
(* Cascade.detect.  The image is a grid of the cascade's own shape: the    *)
(* resize of an image of another shape is done by cv2 and is not part of   *)
(* the model.                                                              *)
(***************************************************************************)
DetectNorm == 256

\* numpy.sum(feature_array * im), as a numerator over the image's denominator
GridDot(cas, grid, px) ==
    SetSum(Cells(cas),
           [cell \in Cells(cas) |-> grid[cell[1]][cell[2]] * px[cell[1]][cell[2]]])

\* a strict comparison in place of >=
ClassifierPassesStrict(cas, classifier, image) ==
    GridDot(cas, feature_to_array(cas, classifier.feature_idx), image.px)
            * classifier.threshold[2]
        > classifier.threshold[1] * image.den

\* numpy.sum(feature_array * im) >= classifier.threshold
ClassifierPasses(cas, classifier, image) ==
    GridDot(cas, feature_to_array(cas, classifier.feature_idx), image.px)
            * classifier.threshold[2]
        >= classifier.threshold[1] * image.den

\* im /= 256. * (self.height * self.width)
NormalizeImage(cas, image) ==
    [den |-> image.den * DetectNorm * (cas.height * cas.width), px |-> image.px]

\* im = im.astype(numpy.float64), then the normalisation, then the loop
DetectEnter ==
    /\ pc = "detect_call"
    /\ im' = NormalizeImage(cascade, im)
    /\ stage_idx' = 0
    /\ cls_idx' = 1
    /\ total' = 0
    /\ pc' = "detect"
    /\ UNCHANGED <<desc, cascade, fidx, out, model, sol, fsol, evaluated,
                   result, written, err>>

\* one iteration of "for classifier in stage.weak_classifiers"
DetectClassifier ==
    /\ pc = "detect"
    /\ stage_idx < Len(cascade.stages)
    /\ cls_idx <= Len(cascade.stages[stage_idx + 1].weak_classifiers)
    /\ LET classifier == cascade.stages[stage_idx + 1].weak_classifiers[cls_idx]
       IN  total' = total + (IF ClassifierPasses(cascade, classifier, im)
                             THEN classifier.pass_val
                             ELSE classifier.fail_val)
    /\ evaluated' = evaluated \cup {<<stage_idx, cls_idx>>}
    /\ cls_idx' = cls_idx + 1
    /\ UNCHANGED <<pc, desc, cascade, fidx, out, model, sol, fsol, im,
                   stage_idx, result, written, err>>

\* the rejecting stage is reported by its 1-based position
DetectBailOneBased ==
    /\ pc = "detect"
    /\ stage_idx < Len(cascade.stages)
    /\ cls_idx > Len(cascade.stages[stage_idx + 1].weak_classifiers)
    /\ total < cascade.stages[stage_idx + 1].threshold
    /\ result' = -(stage_idx + 1)
    /\ pc' = "returned"
    /\ UNCHANGED <<desc, cascade, fidx, out, model, sol, fsol, im, stage_idx,
                   cls_idx, total, evaluated, written, err>>

\* a rejecting stage is recorded and the loop goes on to the next stage
DetectBailLast ==
    /\ pc = "detect"
    /\ stage_idx < Len(cascade.stages)
    /\ cls_idx > Len(cascade.stages[stage_idx + 1].weak_classifiers)
    /\ total < cascade.stages[stage_idx + 1].threshold
    /\ result' = -stage_idx
    /\ stage_idx' = stage_idx + 1
    /\ cls_idx' = 1
    /\ total' = 0
    /\ pc' = IF stage_idx + 1 = Len(cascade.stages) THEN "returned" ELSE "detect"
    /\ UNCHANGED <<desc, cascade, fidx, out, model, sol, fsol, im, evaluated,
                   written, err>>

\* if total < stage.threshold: return -stage_idx
DetectBail ==
    /\ pc = "detect"
    /\ stage_idx < Len(cascade.stages)
    /\ cls_idx > Len(cascade.stages[stage_idx + 1].weak_classifiers)
    /\ total < cascade.stages[stage_idx + 1].threshold
    /\ result' = -stage_idx
    /\ pc' = "returned"
    /\ UNCHANGED <<desc, cascade, fidx, out, model, sol, fsol, im, stage_idx,
                   cls_idx, total, evaluated, written, err>>

\* the stage total reaches the threshold: the next iteration of the stage loop
DetectNextStage ==
    /\ pc = "detect"
    /\ stage_idx < Len(cascade.stages)
    /\ cls_idx > Len(cascade.stages[stage_idx + 1].weak_classifiers)
    /\ ~(total < cascade.stages[stage_idx + 1].threshold)
    /\ stage_idx' = stage_idx + 1
    /\ cls_idx' = 1
    /\ total' = 0
    /\ UNCHANGED <<pc, desc, cascade, fidx, out, model, sol, fsol, im,
                   evaluated, result, written, err>>

\* the stage loop is exhausted: return 1
DetectAccept ==
    /\ pc = "detect"
    /\ stage_idx = Len(cascade.stages)
    /\ result' = 1
    /\ pc' = "returned"
    /\ UNCHANGED <<desc, cascade, fidx, out, model, sol, fsol, im, stage_idx,
                   cls_idx, total, evaluated, written, err>>

(***************************************************************************)
(* detect called on cascades of up to MaxDetectStages stages, drawn from   *)
(* five stages over two Haar features of a 2 x 2 window, and on images     *)
(* with pixel values in 0..256.                                            *)
(***************************************************************************)
MaxDetectStages == 3

\* feature 0: left column minus right column; feature 1: the top row
DetectFeatures ==
    << <<Rect(0, 0, 2, 2, -1), Rect(0, 0, 1, 2, 2)>>, <<Rect(0, 0, 2, 1, 1)>> >>

EdgeClassifier == WeakClassifier(0, <<0, 1>>, -1, 1)
TopClassifier == WeakClassifier(1, <<1, 4>>, 1, -1)

DetectStages ==
    {Stage(0, <<EdgeClassifier>>),
     Stage(0, <<TopClassifier>>),
     Stage(0, <<EdgeClassifier, TopClassifier>>),
     Stage(2, <<TopClassifier, EdgeClassifier>>),
     Stage(-1, <<TopClassifier, TopClassifier, EdgeClassifier>>)}

DetectCascades ==
    {Cascade(2, 2, stages, DetectFeatures) :
        stages \in SeqsUpTo(DetectStages, MaxDetectStages)}

Image(a, b, c, d) ==
    [den |-> 1, px |-> [row \in 0..1 |-> [col \in 0..1 |->
        IF row = 0 THEN (IF col = 0 THEN a ELSE b)
                   ELSE (IF col = 0 THEN c ELSE d)]]]

DetectImages ==
    {Image(a, b, c, d) : a, b, c, d \in {0, 256}}
    \cup {Image(128, 0, 0, 0), Image(255, 0, 1, 0)}

InitDetect ==
    /\ pc = "detect_call"
    /\ desc = NoDescription
    /\ cascade \in DetectCascades
    /\ fidx = 0 /\ out = NoGrid /\ model = NoModel /\ sol = NoGrid
    /\ fsol = NoValue
    /\ im \in DetectImages
    /\ stage_idx = 0 /\ cls_idx = 1 /\ total = 0 /\ evaluated = {}
    /\ result = NoValue /\ written = FALSE /\ err = ""

NextDetect ==
    \/ DetectEnter
    \/ DetectClassifier
    \/ DetectBail
    \/ DetectNextStage
    \/ DetectAccept

SpecDetect == InitDetect /\ [][NextDetect]_vars

(***************************************************************************)
(* The stage totals of section 4.3, computed over the whole stage from the *)
(* image as the caller gave it (before detect's own normalisation).        *)
(***************************************************************************)
Normalized(cas, image) ==
    [den |-> image.den * 256 * cas.height * cas.width, px |-> image.px]

StageTotal(cas, image, k) ==
    LET wcs == cas.stages[k + 1].weak_classifiers IN
    SeqSum([i \in 1..Len(wcs) |->
        IF GridDot(cas, feature_to_array(cas, wcs[i].feature_idx), image.px)
               * wcs[i].threshold[2]
             >= wcs[i].threshold[1] * Normalized(cas, image).den
        THEN wcs[i].pass_val ELSE wcs[i].fail_val])

FailingStages(cas, image) ==
    {k \in 0..(Len(cas.stages) - 1) : StageTotal(cas, image, k) < cas.stages[k + 1].threshold}

FirstFailing(cas, image) ==
    CHOOSE k \in FailingStages(cas, image) :
        \A j \in FailingStages(cas, image) : k <= j

\* the image detect was called with: detect only changes the denominator
CallImage == [den |-> im.den \div (DetectNorm * cascade.height * cascade.width),
              px |-> im.px]


Rejected == FailingStages(cascade, CallImage) # {}

(***************************************************************************)
(* C2: sequential bailout.  When some stage total of the image is below    *)
(* its stage threshold, detect returns -k for the first such stage k, and  *)
(* no weak classifier of a stage after k has been evaluated.               *)
(***************************************************************************)
C2_SequentialBailout ==
    (pc = "returned" /\ Rejected) =>
        LET k == FirstFailing(cascade, CallImage) IN
        /\ result = -k
        /\ \A e \in evaluated : e[1] <= k

C2_Witness ==
    /\ pc = "returned"
    /\ Len(cascade.stages) = 3
    /\ FailingStages(cascade, CallImage) = {1}
    /\ result = -1
    /\ evaluated # {}

(***************************************************************************)
(* C3: accept path.  detect returns 1 exactly when every stage total is    *)
(* at least the stage threshold; a rejected image yields a value other     *)
(* than 1.                                                                 *)
(***************************************************************************)
C3_AcceptPath ==
    pc = "returned" =>
        /\ (result = 1) <=>
              \A k \in 0..(Len(cascade.stages) - 1) :
                  StageTotal(cascade, CallImage, k) >= cascade.stages[k + 1].threshold
        /\ Rejected => result # 1

C3_Witness ==
    /\ pc = "returned"
    /\ result = 1
    /\ Len(cascade.stages) = 3
    /\ \E k \in 0..2 : Len(cascade.stages[k + 1].weak_classifiers) > 1

(***************************************************************************)
(* C4 as stated: whenever detect rejects at a stage, the value returned is *)
(* a negative integer that identifies the rejecting stage, stage 0         *)
(* included.                                                               *)
(***************************************************************************)
C4_RejectionNegative ==
    (pc = "returned" /\ Rejected) =>
        /\ result \in Int
        /\ result < 0
        /\ -result = stage_idx

(***************************************************************************)
(* C4 as amended: whenever detect rejects at a stage, the value returned   *)
(* is the negation of the rejecting stage's 0-based index: 0 for stage 0,  *)
(* negative for every later stage, and never the accept value 1.           *)
(***************************************************************************)
C4_RejectionSignal ==
    (pc = "returned" /\ Rejected) =>
        /\ result \in Int
        /\ result <= 0
        /\ -result = stage_idx
        /\ total < cascade.stages[stage_idx + 1].threshold
        /\ (stage_idx > 0 <=> result < 0)

C4_Witness ==
    /\ pc = "returned"
    /\ Rejected
    /\ stage_idx = 0
    /\ result = 0


(***************************************************************************)
(* Cascade.load.  A description is the parsed document: width, height, a   *)
(* sequence of stages, each with its stageThreshold and its weak           *)
(* classifiers' internalNodes and leafValues token lists, and a sequence   *)
(* of features, each a sequence of rectangle token lists.  The sentinel    *)
(* tokens are strings, compared as load compares them; the numeric tokens  *)
(* are held as the numbers int() and float() return for them.              *)
(***************************************************************************)
ClassifierNodes(d) ==
    UNION {{<<s, c>> : c \in 1..Len(d.stages[s].weakClassifiers)} :
              s \in 1..Len(d.stages)}

\* only the first sentinel is tested
SentinelsOKFirstOnly(d) ==
    \A n \in ClassifierNodes(d) :
        d.stages[n[1]].weakClassifiers[n[2]].internalNodes[1] = "0"

\* assert sp[0] == "0"; assert sp[1] == "-1", for every classifier node
SentinelsOK(d) ==
    \A n \in ClassifierNodes(d) :
        LET sp == d.stages[n[1]].weakClassifiers[n[2]].internalNodes IN
        sp[1] = "0" /\ sp[2] = "-1"

LoadClassifier(node) ==
    WeakClassifier(node.internalNodes[3], node.internalNodes[4],
                   node.leafValues[1], node.leafValues[2])

LoadStage(stage_node) ==
    Stage(stage_node.stageThreshold,
          [i \in 1..Len(stage_node.weakClassifiers) |->
              LoadClassifier(stage_node.weakClassifiers[i])])

LoadFeature(feature_node) ==
    [i \in 1..Len(feature_node) |->
        Rect(feature_node[i][1], feature_node[i][2], feature_node[i][3],
             feature_node[i][4], feature_node[i][5])]

LoadCascade(d) ==
    Cascade(d.width, d.height,
            [i \in 1..Len(d.stages) |-> LoadStage(d.stages[i])],
            [i \in 1..Len(d.features) |-> LoadFeature(d.features[i])])

\* cascade = Cascade.load(...): in find_min_face, and again before detect
Load ==
    /\ pc \in {"start", "reload"}
    /\ SentinelsOK(desc)
    /\ cascade' = LoadCascade(desc)
    /\ pc' = IF pc = "start" THEN "loaded" ELSE "detect_call"
    /\ UNCHANGED <<desc, fidx, out, model, sol, fsol, im, stage_idx, cls_idx,
                   total, evaluated, result, written, err>>

\* a failed sentinel assert: the AssertionError is caught nowhere
LoadFail ==
    /\ pc \in {"start", "reload"}
    /\ ~SentinelsOK(desc)
    /\ pc' = "aborted"
    /\ err' = "LoadAssertionError"
    /\ UNCHANGED <<desc, cascade, fidx, out, model, sol, fsol, im, stage_idx,
                   cls_idx, total, evaluated, result, written>>

(***************************************************************************)
(* CascadeModel.__init__.  A constraint is a record                        *)
(*   [den, pcoef, fcoef, sense, rhs, kind, stage, cls]                     *)
(* standing for                                                            *)
(*   (SUM pcoef[y][x] * pixel(x,y) + SUM fcoef[i] * feature(i)) / den      *)
(*        sense  rhs / den                                                 *)
(* with den > 0: the program's coefficients over one common denominator.   *)
(* kind, stage and cls record which statement of the loop added it.        *)
(***************************************************************************)
Epsilon == 0

FeatureIdxs(cas) == 0..(Len(cas.features) - 1)

\* the feature grid is used without the division by width * height
ClassifierConstraintUnscaled(cas, s, c) ==
    LET classifier == cas.stages[s].weak_classifiers[c]
        feature_array == feature_to_array(cas, classifier.feature_idx)
        tn == classifier.threshold[1]
        td == classifier.threshold[2]
    IN  IF classifier.pass_val >= classifier.fail_val
        THEN [den |-> td,
              pcoef |-> [y \in Rows(cas) |-> [x \in Cols(cas) |->
                            feature_array[y][x] * td]],
              fcoef |-> [i \in FeatureIdxs(cas) |->
                            IF i = classifier.feature_idx
                            THEN -(tn + Epsilon * td) ELSE 0],
              sense |-> ">=", rhs |-> 0,
              kind |-> "classifier", stage |-> s, cls |-> c]
        ELSE [den |-> td,
              pcoef |-> [y \in Rows(cas) |-> [x \in Cols(cas) |->
                            feature_array[y][x] * td]],
              fcoef |-> [i \in FeatureIdxs(cas) |->
                            IF i = classifier.feature_idx
                            THEN (tn - Epsilon * td) ELSE 0],
              sense |-> "<=", rhs |-> (tn - Epsilon * td),
              kind |-> "classifier", stage |-> s, cls |-> c]

\* the constraint added for one weak classifier (lines 161-184):
\* feature_array /= width * height, then the branch on pass_val >= fail_val
ClassifierConstraint(cas, s, c) ==
    LET classifier == cas.stages[s].weak_classifiers[c]
        feature_array == feature_to_array(cas, classifier.feature_idx)
        wh == cas.width * cas.height
        tn == classifier.threshold[1]
        td == classifier.threshold[2]
    IN  IF classifier.pass_val >= classifier.fail_val
        THEN [den |-> wh * td,
              pcoef |-> [y \in Rows(cas) |-> [x \in Cols(cas) |->
                            feature_array[y][x] * td]],
              fcoef |-> [i \in FeatureIdxs(cas) |->
                            IF i = classifier.feature_idx
                            THEN -((tn + Epsilon * td) * wh) ELSE 0],
              sense |-> ">=", rhs |-> 0,
              kind |-> "classifier", stage |-> s, cls |-> c]
        ELSE [den |-> wh * td,
              pcoef |-> [y \in Rows(cas) |-> [x \in Cols(cas) |->
                            feature_array[y][x] * td]],
              fcoef |-> [i \in FeatureIdxs(cas) |->
                            IF i = classifier.feature_idx
                            THEN (tn - Epsilon * td) * wh ELSE 0],
              sense |-> "<=", rhs |-> (tn - Epsilon * td) * wh,
              kind |-> "classifier", stage |-> s, cls |-> c]

\* sum((c.pass_val - c.fail_val) * feature_vars[c.feature_idx] ...): the
\* terms of one feature variable add up
RECURSIVE StageTerms(_, _, _)
StageTerms(cas, wcs, i) ==
    IF i > Len(wcs) THEN [j \in FeatureIdxs(cas) |-> 0]
    ELSE LET rest == StageTerms(cas, wcs, i + 1) IN
         [rest EXCEPT ![wcs[i].feature_idx] = @ + (wcs[i].pass_val - wcs[i].fail_val)]

\* the right-hand side without the fail values
StageConstraintNoFail(cas, s) ==
    LET stage == cas.stages[s] IN
    [den |-> 1,
     pcoef |-> [y \in Rows(cas) |-> [x \in Cols(cas) |-> 0]],
     fcoef |-> StageTerms(cas, stage.weak_classifiers, 1),
     sense |-> ">=",
     rhs |-> stage.threshold + Epsilon,
     kind |-> "stage", stage |-> s, cls |-> 0]

\* the constraint added for one stage (lines 188-193)
StageConstraint(cas, s) ==
    LET stage == cas.stages[s]
        fail_val_total ==
            SeqSum([i \in 1..Len(stage.weak_classifiers) |->
                        stage.weak_classifiers[i].fail_val])
        adjusted_stage_threshold == stage.threshold + Epsilon
    IN  [den |-> 1,
         pcoef |-> [y \in Rows(cas) |-> [x \in Cols(cas) |-> 0]],
         fcoef |-> StageTerms(cas, stage.weak_classifiers, 1),
         sense |-> ">=",
         rhs |-> adjusted_stage_threshold - fail_val_total,
         kind |-> "stage", stage |-> s, cls |-> 0]

RECURSIVE ModelConstraints(_, _)
ModelConstraints(cas, s) ==
    IF s > Len(cas.stages) THEN <<>>
    ELSE [c \in 1..Len(cas.stages[s].weak_classifiers) |->
              ClassifierConstraint(cas, s, c)]
         \o <<StageConstraint(cas, s)>>
         \o ModelConstraints(cas, s + 1)

\* self.features[feature_idx] and feature_vars[classifier.feature_idx] exist
\* (a negative feature_idx indexes features from the end but is no key of
\* feature_vars, so it fails as well)
FeatureIdxsValid(cas) ==
    \A s \in 1..Len(cas.stages) :
        \A c \in 1..Len(cas.stages[s].weak_classifiers) :
            cas.stages[s].weak_classifiers[c].feature_idx \in FeatureIdxs(cas)

\* cascade_model = CascadeModel(cascade)
BuildModel ==
    /\ pc = "loaded"
    /\ FeatureIdxsValid(cascade)
    /\ model' = ModelConstraints(cascade, 1)
    /\ pc' = "built"
    /\ UNCHANGED <<desc, cascade, fidx, out, sol, fsol, im, stage_idx, cls_idx,
                   total, evaluated, result, written, err>>

\* a feature_idx past the end of features: feature_to_array raises IndexError
BuildModelFail ==
    /\ pc = "loaded"
    /\ ~FeatureIdxsValid(cascade)
    /\ pc' = "aborted"
    /\ err' = "IndexError"
    /\ UNCHANGED <<desc, cascade, fidx, out, model, sol, fsol, im, stage_idx,
                   cls_idx, total, evaluated, result, written>>

(***************************************************************************)
(* The solver.  pixel_vars[x, y] is continuous in [0, 1] and takes the     *)
(* values k / PixLevels here; feature_vars[idx] is binary.                 *)
(***************************************************************************)
PixelKeys(cas) == Cols(cas) \X Rows(cas)

PixelAssignments(cas) == [PixelKeys(cas) -> 0..PixLevels]
FeatureAssignments(cas) == [FeatureIdxs(cas) -> {0, 1}]

\* the left-hand side times PixLevels
Lhs(cas, con, pv, fv) ==
    SetSum(PixelKeys(cas),
           [k \in PixelKeys(cas) |-> con.pcoef[k[2]][k[1]] * pv[k]])
    + PixLevels * SetSum(FeatureIdxs(cas),
                         [i \in FeatureIdxs(cas) |-> con.fcoef[i] * fv[i]])

Holds(cas, con, pv, fv) ==
    IF con.sense = ">="
    THEN Lhs(cas, con, pv, fv) >= PixLevels * con.rhs
    ELSE Lhs(cas, con, pv, fv) <= PixLevels * con.rhs

Feasible(cas, m, pv, fv) ==
    \A i \in 1..Len(m) : Holds(cas, m[i], pv, fv)

\* sum(v for v in pixel_vars.values()), times PixLevels
Objective(cas, pv) == SetSum(PixelKeys(cas), pv)

FeasiblePixels(cas, m) ==
    {pv \in PixelAssignments(cas) :
        \E fv \in FeatureAssignments(cas) : Feasible(cas, m, pv, fv)}

\* sol[y][x] = pixel_vars[x, y].solution_value
SolutionGrid(cas, pv) ==
    [y \in Rows(cas) |-> [x \in Cols(cas) |-> pv[<<x, y>>]]]

\* model.solve() succeeds: find_min_face returns an optimal solution's grid
Solve ==
    /\ pc = "built"
    /\ LET feasible == FeasiblePixels(cascade, model) IN
       /\ feasible # {}
       /\ \E pv \in feasible :
             /\ \A other \in feasible :
                   Objective(cascade, pv) <= Objective(cascade, other)
             /\ \E fv \in FeatureAssignments(cascade) :
                   /\ Feasible(cascade, model, pv, fv)
                   /\ fsol' = fv
             /\ sol' = SolutionGrid(cascade, pv)
    /\ pc' = "solved"
    /\ UNCHANGED <<desc, cascade, fidx, out, model, im, stage_idx, cls_idx,
                   total, evaluated, result, written, err>>

\* model.solve() returns nothing: raise Exception("Failed to find solution")
SolveFail ==
    /\ pc = "built"
    /\ FeasiblePixels(cascade, model) = {}
    /\ pc' = "aborted"
    /\ err' = "Failed to find solution"
    /\ UNCHANGED <<desc, cascade, fidx, out, model, sol, fsol, im, stage_idx,
                   cls_idx, total, evaluated, result, written>>

(***************************************************************************)
(* The module's top-level statements after find_min_face.                  *)
(***************************************************************************)
SolScale == 256

\* im *= 256., on a grid of numerators over PixLevels
ScaleImage(cas, grid) ==
    [den |-> PixLevels,
     px |-> [y \in Rows(cas) |-> [x \in Cols(cas) |-> SolScale * grid[y][x]]]]

\* im *= 256.; cv2.resize; cv2.imwrite("out.png", im_resized)
WriteImage ==
    /\ pc = "solved"
    /\ im' = ScaleImage(cascade, sol)
    /\ written' = TRUE
    /\ pc' = "reload"
    /\ UNCHANGED <<desc, cascade, fidx, out, model, sol, fsol, stage_idx,
                   cls_idx, total, evaluated, result, err>>

\* assert cascade.detect(im) == 1 holds
AssertPass ==
    /\ pc = "returned"
    /\ desc # NoDescription
    /\ result = 1
    /\ pc' = "done"
    /\ UNCHANGED <<desc, cascade, fidx, out, model, sol, fsol, im, stage_idx,
                   cls_idx, total, evaluated, result, written, err>>

\* assert cascade.detect(im) == 1 fails
AssertFail ==
    /\ pc = "returned"
    /\ desc # NoDescription
    /\ result # 1
    /\ pc' = "aborted"
    /\ err' = "DetectAssertionError"
    /\ UNCHANGED <<desc, cascade, fidx, out, model, sol, fsol, im, stage_idx,
                   cls_idx, total, evaluated, result, written>>


(***************************************************************************)
(* The run from the command line, on descriptions of a 2 x 1 window with   *)
(* two features: every one-stage, one-classifier description over          *)
(* RichNodes, and every description of up to MaxStages stages of up to     *)
(* MaxClassifiers classifiers over SmallNodes.                             *)
(***************************************************************************)
Node(sp0, sp1, feature_idx, threshold, fail_val, pass_val) ==
    [internalNodes |-> <<sp0, sp1, feature_idx, threshold>>,
     leafValues |-> <<fail_val, pass_val>>]

StageNode(threshold, nodes) ==
    [stageThreshold |-> threshold, weakClassifiers |-> nodes]

\* feature 0: left pixel minus right pixel; feature 1: both pixels
FeatureNodes ==
    << << <<0, 0, 2, 1, -1>>, <<0, 0, 1, 1, 2>> >>, << <<0, 0, 2, 1, 1>> >> >>

Description(stage_nodes) ==
    [width |-> 2, height |-> 1, stages |-> stage_nodes, features |-> FeatureNodes]

RichNodes ==
    {Node("0", "-1", i, t, lv[1], lv[2]) :
        i \in 0..1, t \in {<<-1, 4>>, <<0, 1>>, <<1, 2>>},
        lv \in {<<-1, 1>>, <<1, -1>>, <<1, 1>>}}
    \cup {Node("0", "-1", 2, <<0, 1>>, -1, 1),
          Node("1", "-1", 0, <<0, 1>>, -1, 1),
          Node("0", "0", 0, <<0, 1>>, -1, 1)}

SmallNodes ==
    {Node("0", "-1", 0, <<0, 1>>, 1, -1), Node("0", "-1", 0, <<-1, 4>>, -2, 1)}

Descriptions ==
    {Description(<<StageNode(T, <<n>>)>>) : n \in RichNodes, T \in {-1, 0, 2}}
    \cup {Description(stage_nodes) :
            stage_nodes \in SeqsUpTo({StageNode(0, nodes) :
                                nodes \in SeqsUpTo(SmallNodes, MaxClassifiers)},
                            MaxStages)}
    \cup {Description(<<StageNode(0, <<Node("0", "-1", 1, <<1, 2>>, -1, 1)>>),
                        StageNode(0, <<Node("0", "-1", 1, <<1, 4>>, -1, 1),
                                       Node("0", "1", 0, <<0, 1>>, -1, 1)>>)>>)}

Init ==
    /\ pc = "start"
    /\ desc \in Descriptions
    /\ cascade = NoCascade
    /\ Idle

Next ==
    \/ Load
    \/ LoadFail
    \/ BuildModel
    \/ BuildModelFail
    \/ Solve
    \/ SolveFail
    \/ WriteImage
    \/ DetectEnter
    \/ DetectClassifier
    \/ DetectBail
    \/ DetectNextStage
    \/ DetectAccept
    \/ AssertPass
    \/ AssertFail

Spec == Init /\ [][Next]_vars


(***************************************************************************)
(* Statements of the claims about the run.                                 *)
(***************************************************************************)
AllClassifiers(cas) ==
    UNION {{<<s, c>> : c \in 1..Len(cas.stages[s].weak_classifiers)} :
              s \in 1..Len(cas.stages)}

\* the image handed to detect for a pixel assignment, as detect normalises it
DetectorImage(cas, pv) ==
    [den |-> PixLevels * 256 * cas.height * cas.width,
     px |-> [y \in Rows(cas) |-> [x \in Cols(cas) |-> 256 * pv[<<x, y>>]]]]

\* the detector's test of one classifier on a pixel assignment: the
\* normalised weighted feature sum is at least the classifier's threshold
TestPasses(cas, classifier, pv) ==
    LET image == DetectorImage(cas, pv) IN
    GridDot(cas, feature_to_array(cas, classifier.feature_idx), image.px)
            * classifier.threshold[2]
        >= classifier.threshold[1] * image.den

(***************************************************************************)
(* C1: soundness of the encoding.  The grid of a solution of the           *)
(* constraints, scaled by 256, is classified 1 by detect on the same       *)
(* cascade.                                                                *)
(***************************************************************************)
C1_Soundness ==
    (pc = "returned" /\ desc # NoDescription) => result = 1

(***************************************************************************)
(* C6: the cascade invariant.  Every Cascade returned by load has only     *)
(* feature_idx values that index its features; a description with a       *)
(* feature_idx outside that range yields no Cascade.                       *)
(***************************************************************************)
C6_FeatureIdxInvariant ==
    /\ cascade # NoCascade =>
          \A n \in AllClassifiers(cascade) :
              LET idx == cascade.stages[n[1]].weak_classifiers[n[2]].feature_idx
              IN  0 <= idx /\ idx < Len(cascade.features)
    /\ (\E n \in ClassifierNodes(desc) :
            LET idx == desc.stages[n[1]].weakClassifiers[n[2]].internalNodes[3]
            IN  idx < 0 \/ idx >= Len(desc.features))
          => cascade = NoCascade

(***************************************************************************)
(* C8: fatal errors abort the run without a partial result.  When a        *)
(* classifier node's first two tokens are not "0" and "-1", or the model   *)
(* has no solution, the run ends with an error: no step follows, no        *)
(* solution grid is returned and out.png is never written.                 *)
(***************************************************************************)
BadSentinel ==
    \E n \in ClassifierNodes(desc) :
        LET sp == desc.stages[n[1]].weakClassifiers[n[2]].internalNodes IN
        ~(sp[1] = "0" /\ sp[2] = "-1")

NoSolution ==
    /\ model # NoModel
    /\ \A pv \in PixelAssignments(cascade), fv \in FeatureAssignments(cascade) :
          \E i \in 1..Len(model) : ~Holds(cascade, model[i], pv, fv)

C8_FatalErrors ==
    /\ BadSentinel =>
          /\ pc \in {"start", "aborted"}
          /\ cascade = NoCascade /\ model = NoModel
    /\ NoSolution => pc \in {"built", "aborted"}
    /\ (BadSentinel \/ NoSolution) =>
          /\ sol = NoGrid /\ im = NoImage /\ ~written /\ evaluated = {}
          /\ pc = "aborted" =>
                /\ err \in {"LoadAssertionError", "Failed to find solution"}
                /\ ~ENABLED Next

C8_Witness ==
    /\ pc = "aborted"
    /\ err = "LoadAssertionError"
    /\ Len(desc.stages) = 2


(***************************************************************************)
(* C9: the per-classifier implication.  Under every assignment that        *)
(* satisfies a weak classifier's constraint: if pass_val >= fail_val, a    *)
(* set feature variable implies that the detector's test passes; if        *)
(* pass_val < fail_val, a passing test implies a set feature variable.     *)
(***************************************************************************)
C9_ClassifierImplication ==
    pc = "built" =>
        \A i \in 1..Len(model) :
            model[i].kind = "classifier" =>
                LET classifier ==
                        cascade.stages[model[i].stage].weak_classifiers[model[i].cls]
                IN  \A pv \in PixelAssignments(cascade),
                       fv \in FeatureAssignments(cascade) :
                        Holds(cascade, model[i], pv, fv) =>
                            /\ classifier.pass_val >= classifier.fail_val =>
                                  (fv[classifier.feature_idx] = 1
                                      => TestPasses(cascade, classifier, pv))
                            /\ classifier.pass_val < classifier.fail_val =>
                                  (TestPasses(cascade, classifier, pv)
                                      => fv[classifier.feature_idx] = 1)

(***************************************************************************)
(* C10: the stage constraint is exact.  For every stage and every 0/1      *)
(* assignment of the feature variables, the stage's constraint holds if    *)
(* and only if the stage total that credits pass_val to each classifier    *)
(* whose feature variable is 1 and fail_val to each whose feature variable *)
(* is 0 is at least the stage threshold.                                   *)
(***************************************************************************)
CreditTotal(stage, fv) ==
    SeqSum([i \in 1..Len(stage.weak_classifiers) |->
        IF fv[stage.weak_classifiers[i].feature_idx] = 1
        THEN stage.weak_classifiers[i].pass_val
        ELSE stage.weak_classifiers[i].fail_val])

C10_StageConstraintExact ==
    pc = "built" =>
        \A i \in 1..Len(model) :
            model[i].kind = "stage" =>
                \A pv \in PixelAssignments(cascade),
                   fv \in FeatureAssignments(cascade) :
                    Holds(cascade, model[i], pv, fv)
                        <=> CreditTotal(cascade.stages[model[i].stage], fv)
                                >= cascade.stages[model[i].stage].threshold

C10_Witness ==
    /\ pc = "built"
    /\ \E i \in 1..Len(model) :
          /\ model[i].kind = "stage"
          /\ LET wcs == cascade.stages[model[i].stage].weak_classifiers IN
             /\ Len(wcs) = 2
             /\ wcs[1].feature_idx = wcs[2].feature_idx
             /\ wcs[1] # wcs[2]
          /\ \E pv \in PixelAssignments(cascade) :
                \E fv, gv \in FeatureAssignments(cascade) :
                    /\ Holds(cascade, model[i], pv, fv)
                    /\ ~Holds(cascade, model[i], pv, gv)

(***************************************************************************)
(* C7: quantity minimisation.  For a one-stage, one-classifier cascade     *)
(* with pass_val >= fail_val, the total intensity of the solved grid is    *)
(* the least total intensity of a grid with pixels in [0, 1] that detect   *)
(* accepts; the solver finds no solution only when detect accepts no grid. *)
(***************************************************************************)
Accepted(cas) ==
    {pv \in PixelAssignments(cas) :
        \A k \in 0..(Len(cas.stages) - 1) :
            LET wcs == cas.stages[k + 1].weak_classifiers IN
            SeqSum([i \in 1..Len(wcs) |->
                       IF TestPasses(cas, wcs[i], pv)
                       THEN wcs[i].pass_val ELSE wcs[i].fail_val])
                >= cas.stages[k + 1].threshold}

GridTotal(cas, grid) ==
    SetSum(Cells(cas), [cell \in Cells(cas) |-> grid[cell[1]][cell[2]]])

Monotone11 ==
    /\ Len(cascade.stages) = 1
    /\ Len(cascade.stages[1].weak_classifiers) = 1
    /\ cascade.stages[1].weak_classifiers[1].pass_val
          >= cascade.stages[1].weak_classifiers[1].fail_val

C7_QuantityMinimization ==
    /\ (pc = "solved" /\ Monotone11) =>
          /\ \E pv \in Accepted(cascade) :
                Objective(cascade, pv) = GridTotal(cascade, sol)
          /\ \A pv \in Accepted(cascade) :
                GridTotal(cascade, sol) <= Objective(cascade, pv)
    /\ (pc = "aborted" /\ err = "Failed to find solution" /\ Monotone11) =>
          Accepted(cascade) = {}

C7_Witness ==
    /\ pc = "solved"
    /\ Monotone11
    /\ GridTotal(cascade, sol) = PixLevels
    /\ cascade.stages[1].weak_classifiers[1].feature_idx = 1

\* a rejected solution rests on a tie of a classifier with pass_val < fail_val
RejectedOnlyOnTie ==
    (pc = "returned" /\ desc # NoDescription /\ result # 1) =>
        \E n \in AllClassifiers(cascade) :
            LET c == cascade.stages[n[1]].weak_classifiers[n[2]] IN
            /\ c.pass_val < c.fail_val
            /\ GridDot(cascade, feature_to_array(cascade, c.feature_idx), im.px)
                   * c.threshold[2] = c.threshold[1] * im.den

=============================================================================
